---- MODULE Spec2Model ----
(***************************************************************************)
(* Model of lunar-magic-wrapper (src/src/lib.rs): the command builders of  *)
(* Wrapper, and the invocation protocol of Wrapper::run_command and        *)
(* Wrapper::run_and_log (tool check, temporary directory, cmd with the     *)
(* output redirected to a log file, reading the log back, classification   *)
(* of the result, release of the temporary directory).                     *)
(*                                                                         *)
(* A string is a sequence of pieces; a piece is a run of characters that   *)
(* holds no space, or the single space " ".  A byte of a file is one of    *)
(* the pieces "a", CR, LF and BAD (a byte that is not valid UTF-8).        *)
(***************************************************************************)
EXTENDS Integers, Sequences, FiniteSets, TLC

VARIABLES
    pc,               \* per caller: position of its invocation
    lunar_magic_path, \* per caller: Wrapper.lunar_magic_path of the call
    command_string,   \* per caller: the argument of run_command
    log_dir,          \* per caller: the TempDir it holds, or NoDir
    proc,             \* per caller: the cmd process of Command::output
    status,           \* per caller: result.status of the finished process
    output,           \* per caller: the lines collected from the log
    result,           \* per caller: the ResultL returned, or NoResult
    tmp,              \* disk: temp directory name -> its creator, 0 if absent
    files,            \* disk: log file path -> [by, data], for existing files
    written,          \* history: the lines this invocation's tool wrote
    spawned,          \* history: processes spawned by this invocation
    made,             \* history: temp directories created by this invocation
    redirected,       \* history: whether cmd could open the redirection target
    call,             \* command builders: the operation called and its arguments
    built             \* command builders: the string handed to run_command

\* the state of the invocations
runvars == <<pc, lunar_magic_path, command_string, log_dir, proc, status, output,
             result, tmp, files, written, spawned, made, redirected>>

\* the state of the command builders
cmdvars == <<call, built>>

vars == <<runvars, cmdvars>>

----------------------------------------------------------------------------
(* Bounds *)

\* most flags a caller combines with | into one flags value
MaxFlags == 2

\* most lines one run of the external tool writes
MaxLines == 2

\* callers that invoke concurrently
Threads == {1, 2}

\* names tempdir() can draw
DirNames == {"tmpA", "tmpB"}

----------------------------------------------------------------------------
(* Strings *)

Sp == <<" ">>

Str(s) == <<s>>

\* Display of an integer (u16 / u32): decimal
Dec(n) == <<ToString(n)>>

\* a byte sequence that is not valid UTF-8
BAD == "\\xFF"

CR == "\r"

LF == "\n"

\* Path::to_string_lossy: what is no valid Unicode becomes U+FFFD
ToStringLossy(p) == [i \in DOMAIN p |-> IF p[i] = BAD THEN "\\uFFFD" ELSE p[i]]

RECURSIVE Join(_)
\* the pieces of a format string "{} {} ... {}": arguments joined by one space
Join(parts) ==
    IF Len(parts) = 0 THEN <<>>
    ELSE IF Len(parts) = 1 THEN parts[1]
    ELSE parts[1] \o Sp \o Join(Tail(parts))

\* Option<T>: <<>> is None, <<x>> is Some(x)
None == <<>>

Some(x) == <<x>>

----------------------------------------------------------------------------
(* Enumerated options *)

RomSizes == {"_2mb", "_3mb", "_4mb", "_6mbSa1", "_8mbSa1"}

\* a rendering whose case drifted for one variant
RomSize_to_string_drift(v) ==
    CASE v = "_2mb" -> Str("2MB")
      [] v = "_3mb" -> Str("3MB")
      [] v = "_4mb" -> Str("4MB")
      [] v = "_6mbSa1" -> Str("6MB_SA1")
      [] v = "_8mbSa1" -> Str("8MB_Sa1")

RomSize_to_string(v) ==
    CASE v = "_2mb" -> Str("2MB")
      [] v = "_3mb" -> Str("3MB")
      [] v = "_4mb" -> Str("4MB")
      [] v = "_6mbSa1" -> Str("6MB_SA1")
      [] v = "_8mbSa1" -> Str("8MB_SA1")

CompressionFormats == {"LcLz2Orig", "LcLz2Speed", "LcLz3"}

CompressionFormat_to_string(v) ==
    CASE v = "LcLz2Orig" -> Str("LC_LZ2_Orig")
      [] v = "LcLz2Speed" -> Str("LC_LZ2_Speed")
      [] v = "LcLz3" -> Str("LC_LZ3")

----------------------------------------------------------------------------
(* Flag sets *)

LevelImportFlags == {"None", "ClearSecondaryExits"}

LevelImportFlag_bits(f) ==
    CASE f = "None" -> 0
      [] f = "ClearSecondaryExits" -> 1

LevelExportFlags == {"None", "OnlyModifiedLevels"}

LevelExportFlag_bits(f) ==
    CASE f = "None" -> 0
      [] f = "OnlyModifiedLevels" -> 1

\* flags combined by addition
BitPlus(a, b) == a + b

RECURSIVE BitOr(_, _)
\* the | of a flag set: bitwise OR of the u32 values
BitOr(a, b) ==
    IF a = 0 THEN b
    ELSE IF b = 0 THEN a
    ELSE (IF a % 2 = 1 \/ b % 2 = 1 THEN 1 ELSE 0) + 2 * BitOr(a \div 2, b \div 2)

RECURSIVE OrAll(_)
\* f1 | f2 | ... | fn, as the caller writes it (left to right)
OrAll(v) ==
    IF Len(v) = 0 THEN 0
    ELSE IF Len(v) = 1 THEN v[1]
    ELSE BitOr(OrAll(SubSeq(v, 1, Len(v) - 1)), v[Len(v)])

----------------------------------------------------------------------------
(* Command builders: the string each operation hands to run_command *)

export_gfx(rom_path) == Join(<<Str("-ExportGFX"), ToStringLossy(rom_path)>>)

export_exgfx(rom_path) == Join(<<Str("-ExportExGFX"), ToStringLossy(rom_path)>>)

import_gfx(rom_path) == Join(<<Str("-ImportGFX"), ToStringLossy(rom_path)>>)

import_exgfx(rom_path) == Join(<<Str("-ImportExGFX"), ToStringLossy(rom_path)>>)

import_all_graphics(rom_path) ==
    Join(<<Str("-ImportAllGraphics"), ToStringLossy(rom_path)>>)

export_level(rom_path, mwl_path, level_number) ==
    Join(<<Str("-ExportLevel"), ToStringLossy(rom_path), ToStringLossy(mwl_path),
           Dec(level_number)>>)

\* an omitted level number rendered as a placeholder
import_level_placeholder(rom_path, mwl_path, level_number) ==
    Join(<<Str("-ImportLevel"), ToStringLossy(rom_path), ToStringLossy(mwl_path),
           Dec(IF level_number # None THEN level_number[1] ELSE 0)>>)

import_level(rom_path, mwl_path, level_number) ==
    IF level_number # None
    THEN Join(<<Str("-ImportLevel"), ToStringLossy(rom_path),
                ToStringLossy(mwl_path), Dec(level_number[1])>>)
    ELSE Join(<<Str("-ImportLevel"), ToStringLossy(rom_path),
                ToStringLossy(mwl_path)>>)

import_map16(rom_path, map16_path, level_number, location) ==
    IF location # None
    THEN Join(<<Str("-ImportMap16"), ToStringLossy(rom_path),
                ToStringLossy(map16_path), Dec(level_number),
                Dec(location[1][1]) \o Str(",") \o Dec(location[1][2])>>)
    ELSE Join(<<Str("-ImportMap16"), ToStringLossy(rom_path),
                ToStringLossy(map16_path), Dec(level_number)>>)

import_custom_palette(rom_path, palette_path, level_number) ==
    Join(<<Str("-ImportCustomPalette"), ToStringLossy(rom_path),
           ToStringLossy(palette_path), Dec(level_number)>>)

export_shared_palette(rom_path, palette_path) ==
    Join(<<Str("-ExportSharedPalette"), ToStringLossy(rom_path),
           ToStringLossy(palette_path)>>)

import_shared_palette(rom_path, palette_path) ==
    Join(<<Str("-ImportSharedPalette"), ToStringLossy(rom_path),
           ToStringLossy(palette_path)>>)

export_all_map16(rom_path, map16_path) ==
    Join(<<Str("-ExportAllMap16"), ToStringLossy(rom_path),
           ToStringLossy(map16_path)>>)

import_all_map16(rom_path, map16_path) ==
    Join(<<Str("-ImportAllMap16"), ToStringLossy(rom_path),
           ToStringLossy(map16_path)>>)

\* flags of value zero treated as flags omitted
export_mult_levels_zero_omitted(rom_path, mwl_path, flags) ==
    IF flags # None /\ flags[1] # 0
    THEN Join(<<Str("-ExportMultLevels"), ToStringLossy(rom_path),
                ToStringLossy(mwl_path), Dec(flags[1])>>)
    ELSE Join(<<Str("-ExportMultLevels"), ToStringLossy(rom_path),
                ToStringLossy(mwl_path)>>)

export_mult_levels(rom_path, mwl_path, flags) ==
    IF flags # None
    THEN Join(<<Str("-ExportMultLevels"), ToStringLossy(rom_path),
                ToStringLossy(mwl_path), Dec(flags[1])>>)
    ELSE Join(<<Str("-ExportMultLevels"), ToStringLossy(rom_path),
                ToStringLossy(mwl_path)>>)

import_mult_levels(rom_path, level_directory, flags) ==
    IF flags # None
    THEN Join(<<Str("-ImportMultLevels"), ToStringLossy(rom_path),
                ToStringLossy(level_directory), Dec(flags[1])>>)
    ELSE Join(<<Str("-ImportMultLevels"), ToStringLossy(rom_path),
                ToStringLossy(level_directory)>>)

expand_rom(rom_path, rom_size) ==
    Join(<<Str("-ExpandROM"), ToStringLossy(rom_path), RomSize_to_string(rom_size)>>)

change_compression(rom_path, compression_format) ==
    Join(<<Str("-ChangeCompression"), ToStringLossy(rom_path),
           CompressionFormat_to_string(compression_format)>>)

transfer_level_global_exanim(dest_rom_path, src_rom_path) ==
    Join(<<Str("-TransferLevelGlobalExAnim"), ToStringLossy(dest_rom_path),
           ToStringLossy(src_rom_path)>>)

transfer_overworld(dest_rom_path, src_rom_path) ==
    Join(<<Str("-TransferOverworld"), ToStringLossy(dest_rom_path),
           ToStringLossy(src_rom_path)>>)

transfer_title_screen(dest_rom_path, src_rom_path) ==
    Join(<<Str("-TransferTitleScreen"), ToStringLossy(dest_rom_path),
           ToStringLossy(src_rom_path)>>)

transfer_credits(dest_rom_path, src_rom_path) ==
    Join(<<Str("-TransferCredits"), ToStringLossy(dest_rom_path),
           ToStringLossy(src_rom_path)>>)

export_title_moves(rom_path, title_moves_path) ==
    Join(<<Str("-ExportTitleMoves"), ToStringLossy(rom_path),
           ToStringLossy(title_moves_path)>>)

import_title_moves(rom_path, title_moves_path) ==
    Join(<<Str("-ImportTitleMoves"), ToStringLossy(rom_path),
           ToStringLossy(title_moves_path)>>)

----------------------------------------------------------------------------
(* Inputs of the calls *)

Rom == <<"hack.smc">>

Src == <<"base.smc">>

\* a path with a space in it, as in the examples of import_level
Mwl == <<"level", " ", "105.mwl">>

Res == <<"resources">>

\* the commands of all operations, each with sample arguments
AllCommands ==
    {export_gfx(Rom), export_exgfx(Rom), import_gfx(Rom), import_exgfx(Rom),
     import_all_graphics(Rom), export_level(Rom, Mwl, 105),
     import_level(Rom, Mwl, Some(107)), import_level(Rom, Mwl, None),
     import_map16(Rom, Res, 105, Some(<<2, 64>>)), import_map16(Rom, Res, 105, None),
     import_custom_palette(Rom, Res, 105),
     export_shared_palette(Rom, Res), import_shared_palette(Rom, Res),
     export_all_map16(Rom, Res), import_all_map16(Rom, Res),
     export_mult_levels(Rom, Mwl, Some(0)), export_mult_levels(Rom, Mwl, Some(1)),
     export_mult_levels(Rom, Mwl, None),
     import_mult_levels(Rom, Res, Some(0)), import_mult_levels(Rom, Res, Some(1)),
     import_mult_levels(Rom, Res, None),
     transfer_level_global_exanim(Rom, Src), transfer_overworld(Rom, Src),
     transfer_title_screen(Rom, Src), transfer_credits(Rom, Src),
     export_title_moves(Rom, Res), import_title_moves(Rom, Res)}
    \cup {expand_rom(Rom, z) : z \in RomSizes}
    \cup {change_compression(Rom, f) : f \in CompressionFormats}

\* the commands the concurrent callers issue
CoreCommands == {export_gfx(Rom), import_level(Rom, Mwl, Some(107))}

\* tool paths a Wrapper is constructed with (Wrapper::new does not validate)
LmExe == <<"C:/lm/lunar_magic.exe">>

LmGone == <<"C:/lm/missing.exe">>

LmNotExe == <<"C:/lm/readme.txt">>

ToolPaths == {LmExe, LmGone, LmNotExe}

\* a check that lets every path through
ExistsAlways(path) == TRUE

\* Path::exists on the tool path
Exists(path) == path \in {LmExe, LmNotExe}

\* whether cmd can start the program at the path
Launchable(path) == path = LmExe

\* the lines the external tool can write, and the line end it writes after each
ToolLines == {<<"a">>, <<>>, <<BAD>>}

Eol(line) == IF line = <<"a">> THEN <<CR, LF>> ELSE <<LF>>

\* ExitStatus::code of a finished process
ExitCodes == {Some(0), Some(1), None}

\* ExitStatus::success
success(st) == st = Some(0)

----------------------------------------------------------------------------
(* Results *)

NoResult == [kind |-> "none"]

Ok(lines) == [kind |-> "Ok", output |-> lines]

LunarMagicMissing(command) == [kind |-> "LunarMagicMissing", command |-> command]

Operation(code, command, out) ==
    [kind |-> "Operation", code |-> code, command |-> command, output |-> out]

FailedToExecute(command) == [kind |-> "FailedToExecute", command |-> command]

\* the unreadable log reported by the exit status instead
NoTempFileAsOperation(command) ==
    [kind |-> "Operation", code |-> Some(1), command |-> command, output |-> <<>>]

NoTempFile(command) == [kind |-> "NoTempFile", command |-> command]

NoTempDir(command) == [kind |-> "NoTempDir", command |-> command]

ErrKinds == {"LunarMagicMissing", "Operation", "FailedToExecute", "NoTempFile", "NoTempDir"}

----------------------------------------------------------------------------
(* The disk and the log file *)

NoDir == "none"

\* names drawn without a look at the disk
AnyNames(disk) == DirNames

\* names tempdir() may return: those of no existing directory
FreshNames(disk) == {d \in DirNames : disk[d] = 0}

\* one log file for all invocations
SharedLogPath(d) == <<"tmpA", "/", "lunar_magic.log">>

\* log_dir.path().join("lunar_magic.log")
LogFilePath(d) == <<d, "/", "lunar_magic.log">>

\* run_command: format!("{} {}", lunar_magic_path, command_string)
MissingCommand(path, cmd) == ToStringLossy(path) \o Sp \o cmd

\* the command without the tool path
MainCommandArgsOnly(path, cmd) == cmd

\* run_and_log: format!("{} {}", lunar_magic_path, command_string)
MainCommand(path, cmd) == ToStringLossy(path) \o Sp \o cmd

\* format!("{} > {}", main_command, log_file_path)
Args(main_command, log_file_path) ==
    main_command \o Sp \o Str(">") \o Sp \o ToStringLossy(log_file_path)

\* cmd /C: the file the output is redirected to is the token after the last ">"
RedirectTarget(a) ==
    LET i == CHOOSE k \in 1..Len(a) :
                 a[k] = ">" /\ \A m \in (k + 1)..Len(a) : a[m] # ">"
        after == SubSeq(a, i + 2, Len(a))
        stop == IF \E k \in 1..Len(after) : after[k] = " "
                THEN (CHOOSE k \in 1..Len(after) :
                          after[k] = " " /\ \A m \in 1..(k - 1) : after[m] # " ") - 1
                ELSE Len(after)
    IN SubSeq(after, 1, stop)

\* a directory that is never removed
KeepDir(d, disk) == disk

\* TempDir::drop: remove_dir_all of the directory
RemoveDirAll(d, disk) == [disk EXCEPT ![d] = 0]

RemoveFilesOf(d, fs) == [p \in {q \in DOMAIN fs : q[1] # d} |-> fs[p]]

RECURSIVE Lines(_)
\* BufRead::lines: cut at each LF, drop the LF and a CR before it
Lines(data) ==
    IF data = <<>> THEN <<>>
    ELSE LET n == Len(data)
             i == IF \E k \in 1..n : data[k] = LF
                  THEN CHOOSE k \in 1..n : data[k] = LF /\ \A m \in 1..(k - 1) : data[m] # LF
                  ELSE n + 1
             raw == SubSeq(data, 1, i - 1)
             line == IF i <= n /\ Len(raw) > 0 /\ raw[Len(raw)] = CR
                     THEN SubSeq(raw, 1, Len(raw) - 1)
                     ELSE raw
         IN <<line>> \o Lines(SubSeq(data, i + 1, n))

\* whether read_line yields the line as a String (Ok) or fails (Err)
ValidUtf8(line) == \A k \in 1..Len(line) : line[k] # BAD

\* no operation called yet
NoCall == [op |-> "none"]

----------------------------------------------------------------------------
(* The invocation: Wrapper::run_command and Wrapper::run_and_log *)

Init ==
    /\ pc = [t \in Threads |-> "idle"]
    /\ lunar_magic_path = [t \in Threads |-> <<>>]
    /\ command_string = [t \in Threads |-> <<>>]
    /\ log_dir = [t \in Threads |-> NoDir]
    /\ proc = [t \in Threads |-> "none"]
    /\ status = [t \in Threads |-> None]
    /\ output = [t \in Threads |-> <<>>]
    /\ result = [t \in Threads |-> NoResult]
    /\ tmp = [d \in DirNames |-> 0]
    /\ files = <<>>
    /\ written = [t \in Threads |-> <<>>]
    /\ spawned = [t \in Threads |-> 0]
    /\ made = [t \in Threads |-> 0]
    /\ redirected = [t \in Threads |-> FALSE]
    /\ call = NoCall
    /\ built = <<>>

\* the value returned, with log_dir dropped on the way out
Leave(t, r) ==
    /\ result' = [result EXCEPT ![t] = r]
    /\ pc' = [pc EXCEPT ![t] = "done"]
    /\ log_dir' = [log_dir EXCEPT ![t] = NoDir]
    /\ IF log_dir[t] = NoDir
       THEN UNCHANGED <<tmp, files>>
       ELSE /\ tmp' = RemoveDirAll(log_dir[t], tmp)
            /\ files' = RemoveFilesOf(log_dir[t], files)

\* an operation of the Wrapper at `path` calls run_command(cmd)
RunCommand(t, path, cmd) ==
    /\ pc[t] = "idle"
    /\ lunar_magic_path' = [lunar_magic_path EXCEPT ![t] = path]
    /\ command_string' = [command_string EXCEPT ![t] = cmd]
    /\ IF ~Exists(path)
       THEN /\ result' = [result EXCEPT ![t] = LunarMagicMissing(MissingCommand(path, cmd))]
            /\ pc' = [pc EXCEPT ![t] = "done"]
       ELSE /\ pc' = [pc EXCEPT ![t] = "ToolChecked"]
            /\ UNCHANGED result
    /\ UNCHANGED <<log_dir, proc, status, output, tmp, files, written, spawned,
                   made, redirected>>
    /\ UNCHANGED cmdvars

\* run_and_log: tempdir()
TempDir(t) ==
    /\ pc[t] = "ToolChecked"
    /\ \/ /\ Leave(t, NoTempDir(MainCommand(lunar_magic_path[t], command_string[t])))
          /\ UNCHANGED made
       \/ \E d \in FreshNames(tmp) :
             /\ tmp' = [tmp EXCEPT ![d] = t]
             /\ log_dir' = [log_dir EXCEPT ![t] = d]
             /\ made' = [made EXCEPT ![t] = @ + 1]
             /\ pc' = [pc EXCEPT ![t] = "TempDirCreated"]
             /\ UNCHANGED <<result, files>>
    /\ UNCHANGED <<lunar_magic_path, command_string, proc, status, output, written,
                   spawned, redirected>>
    /\ UNCHANGED cmdvars

\* run_and_log: Command::new("cmd").args(["/C", &args]).output(), up to the
\* start of the tool: cmd opens the redirection target, then starts the tool
Spawn(t) ==
    /\ pc[t] = "TempDirCreated"
    /\ LET main_command == MainCommand(lunar_magic_path[t], command_string[t])
           target == RedirectTarget(Args(main_command, LogFilePath(log_dir[t])))
       IN \/ /\ Leave(t, FailedToExecute(main_command))
             /\ UNCHANGED <<proc, status, spawned, redirected>>
          \/ /\ pc' = [pc EXCEPT ![t] = "ProcessLaunched"]
             /\ spawned' = [spawned EXCEPT ![t] = @ + 1]
             /\ \E opened \in {ok \in BOOLEAN : ok => tmp[target[1]] # 0} :
                   /\ redirected' = [redirected EXCEPT ![t] = opened]
                   /\ files' = IF opened
                               THEN (target :> [by |-> t, data |-> <<>>]) @@ files
                               ELSE files
                   /\ IF opened /\ Launchable(lunar_magic_path[t])
                      THEN /\ proc' = [proc EXCEPT ![t] = "running"]
                           /\ UNCHANGED status
                      ELSE /\ proc' = [proc EXCEPT ![t] = "exited"]
                           /\ status' = [status EXCEPT ![t] = Some(1)]
             /\ UNCHANGED <<result, log_dir, tmp>>
    /\ UNCHANGED <<lunar_magic_path, command_string, output, written, made>>
    /\ UNCHANGED cmdvars

\* the external tool writes one line to its console, which cmd redirected
ToolWrite(t, line) ==
    /\ proc[t] = "running"
    /\ Len(written[t]) < MaxLines
    /\ LET main_command == MainCommand(lunar_magic_path[t], command_string[t])
           target == RedirectTarget(Args(main_command, LogFilePath(log_dir[t])))
       IN files' = IF target \in DOMAIN files
                   THEN [files EXCEPT ![target].data = @ \o line \o Eol(line)]
                   ELSE files
    /\ written' = [written EXCEPT ![t] = Append(@, line)]
    /\ UNCHANGED <<pc, lunar_magic_path, command_string, log_dir, proc, status,
                   output, result, tmp, spawned, made, redirected>>
    /\ UNCHANGED cmdvars

\* the external tool ends, and cmd with it
ToolExit(t, code) ==
    /\ proc[t] = "running"
    /\ proc' = [proc EXCEPT ![t] = "exited"]
    /\ status' = [status EXCEPT ![t] = code]
    /\ UNCHANGED <<pc, lunar_magic_path, command_string, log_dir, output, result,
                   tmp, files, written, spawned, made, redirected>>
    /\ UNCHANGED cmdvars

\* run_and_log: output() has returned Ok(result); File::open(log_file_path)
OpenLog(t) ==
    /\ pc[t] = "ProcessLaunched"
    /\ proc[t] = "exited"
    /\ IF LogFilePath(log_dir[t]) \in DOMAIN files
       THEN /\ pc' = [pc EXCEPT ![t] = "LogOpened"]
            /\ UNCHANGED <<result, log_dir, tmp, files>>
       ELSE Leave(t, NoTempFile(MainCommand(lunar_magic_path[t], command_string[t])))
    /\ UNCHANGED <<lunar_magic_path, command_string, proc, status, output, written,
                   spawned, made, redirected>>
    /\ UNCHANGED cmdvars

\* run_and_log: lines.map(|l| l.expect("Failed to read line")).collect()
ReadLog(t) ==
    /\ pc[t] = "LogOpened"
    /\ LET path == LogFilePath(log_dir[t])
           lines == IF path \in DOMAIN files THEN Lines(files[path].data) ELSE <<>>
       IN IF \A k \in 1..Len(lines) : ValidUtf8(lines[k])
          THEN /\ output' = [output EXCEPT ![t] = lines]
               /\ pc' = [pc EXCEPT ![t] = "LogRead"]
               /\ UNCHANGED <<log_dir, tmp, files>>
          ELSE \* expect panics; unwinding drops log_dir
               /\ pc' = [pc EXCEPT ![t] = "panicked"]
               /\ log_dir' = [log_dir EXCEPT ![t] = NoDir]
               /\ tmp' = RemoveDirAll(log_dir[t], tmp)
               /\ files' = RemoveFilesOf(log_dir[t], files)
               /\ UNCHANGED output
    /\ UNCHANGED <<lunar_magic_path, command_string, proc, status, result, written,
                   spawned, made, redirected>>
    /\ UNCHANGED cmdvars

\* the failure reported without the lines collected
ClassifyDropOutput(st, main_command, out) ==
    IF ~success(st) THEN Operation(st, main_command, <<>>) ELSE Ok(out)

\* run_and_log: the result of the invocation, by result.status
Classify(st, main_command, out) ==
    IF ~success(st) THEN Operation(st, main_command, out) ELSE Ok(out)

Finish(t) ==
    /\ pc[t] = "LogRead"
    /\ Leave(t, Classify(status[t],
                         MainCommand(lunar_magic_path[t], command_string[t]),
                         output[t]))
    /\ UNCHANGED <<lunar_magic_path, command_string, proc, status, output, written,
                   spawned, made, redirected>>
    /\ UNCHANGED cmdvars

\* the caller has its result (or its panic) and is free to call again
Return(t) ==
    /\ pc[t] \in {"done", "panicked"}
    /\ pc' = [pc EXCEPT ![t] = "idle"]
    /\ lunar_magic_path' = [lunar_magic_path EXCEPT ![t] = <<>>]
    /\ command_string' = [command_string EXCEPT ![t] = <<>>]
    /\ proc' = [proc EXCEPT ![t] = "none"]
    /\ status' = [status EXCEPT ![t] = None]
    /\ output' = [output EXCEPT ![t] = <<>>]
    /\ result' = [result EXCEPT ![t] = NoResult]
    /\ written' = [written EXCEPT ![t] = <<>>]
    /\ spawned' = [spawned EXCEPT ![t] = 0]
    /\ made' = [made EXCEPT ![t] = 0]
    /\ redirected' = [redirected EXCEPT ![t] = FALSE]
    /\ UNCHANGED <<log_dir, tmp, files>>
    /\ UNCHANGED cmdvars

\* concurrent callers, each issuing one of CoreCommands
Next ==
    \E t \in Threads :
        \/ \E path \in ToolPaths, cmd \in CoreCommands : RunCommand(t, path, cmd)
        \/ TempDir(t)
        \/ Spawn(t)
        \/ \E line \in ToolLines : ToolWrite(t, line)
        \/ \E code \in ExitCodes : ToolExit(t, code)
        \/ OpenLog(t)
        \/ ReadLog(t)
        \/ Finish(t)
        \/ Return(t)

Spec == Init /\ [][Next]_vars

\* one caller, issuing every operation of the Wrapper
NextOps ==
    \/ \E path \in ToolPaths, cmd \in AllCommands : RunCommand(1, path, cmd)
    \/ TempDir(1)
    \/ Spawn(1)
    \/ \E line \in ToolLines : ToolWrite(1, line)
    \/ \E code \in ExitCodes : ToolExit(1, code)
    \/ OpenLog(1)
    \/ ReadLog(1)
    \/ Finish(1)
    \/ Return(1)

SpecOps == Init /\ [][NextOps]_vars

\* one caller; the steps of run_and_log are taken when they can be, since
\* they are consecutive statements of the calling thread.  Nothing obliges
\* the external tool to write or to end, nor the caller to call or to return.
SpecLive ==
    /\ Init
    /\ [][NextOps]_vars
    /\ WF_vars(TempDir(1))
    /\ WF_vars(Spawn(1))
    /\ WF_vars(OpenLog(1))
    /\ WF_vars(ReadLog(1))
    /\ WF_vars(Finish(1))

----------------------------------------------------------------------------
(* The operations with an optional or an enumerated argument, as calls *)

\* paths the operations are called with
CmdPaths == {Rom, Mwl, Res}

\* level numbers (u16)
LevelNumbers == {0, 105, 65535}

\* map16 locations (u32, u32)
Locations == {<<2, 64>>, <<0, 0>>}

\* the flags values a caller can write with at most MaxFlags flags
FlagSeqs(F) == UNION {[1..n -> F] : n \in 1..MaxFlags}

\* flags.bits() of the value the caller passes
ImportBits(fs) == OrAll([i \in DOMAIN fs |-> LevelImportFlag_bits(fs[i])])

ExportBits(fs) == OrAll([i \in DOMAIN fs |-> LevelExportFlag_bits(fs[i])])

\* the command string the operation of call c builds
BuildCall(c) ==
    CASE c.op = "import_level" -> import_level(c.rom, c.path, c.opt)
      [] c.op = "import_map16" -> import_map16(c.rom, c.path, c.level, c.opt)
      [] c.op = "export_mult_levels" ->
            export_mult_levels(c.rom, c.path,
                               IF c.opt = None THEN None ELSE Some(ExportBits(c.opt[1])))
      [] c.op = "import_mult_levels" ->
            import_mult_levels(c.rom, c.path,
                               IF c.opt = None THEN None ELSE Some(ImportBits(c.opt[1])))
      [] c.op = "expand_rom" -> expand_rom(c.rom, c.opt[1])
      [] c.op = "change_compression" -> change_compression(c.rom, c.opt[1])

ImportLevel(rom_path, mwl_path, level_number) ==
    /\ call' = [op |-> "import_level", rom |-> rom_path, path |-> mwl_path,
                level |-> 0, opt |-> level_number]
    /\ built' = import_level(rom_path, mwl_path, level_number)
    /\ UNCHANGED runvars

ImportMap16(rom_path, map16_path, level_number, location) ==
    /\ call' = [op |-> "import_map16", rom |-> rom_path, path |-> map16_path,
                level |-> level_number, opt |-> location]
    /\ built' = import_map16(rom_path, map16_path, level_number, location)
    /\ UNCHANGED runvars

\* flags is None, or Some of the flags the caller combined with |
ExportMultLevels(rom_path, mwl_path, flags) ==
    /\ call' = [op |-> "export_mult_levels", rom |-> rom_path, path |-> mwl_path,
                level |-> 0, opt |-> flags]
    /\ built' = export_mult_levels(rom_path, mwl_path,
                    IF flags = None THEN None ELSE Some(ExportBits(flags[1])))
    /\ UNCHANGED runvars

ImportMultLevels(rom_path, level_directory, flags) ==
    /\ call' = [op |-> "import_mult_levels", rom |-> rom_path,
                path |-> level_directory, level |-> 0, opt |-> flags]
    /\ built' = import_mult_levels(rom_path, level_directory,
                    IF flags = None THEN None ELSE Some(ImportBits(flags[1])))
    /\ UNCHANGED runvars

ExpandRom(rom_path, rom_size) ==
    /\ call' = [op |-> "expand_rom", rom |-> rom_path, path |-> <<>>,
                level |-> 0, opt |-> Some(rom_size)]
    /\ built' = expand_rom(rom_path, rom_size)
    /\ UNCHANGED runvars

ChangeCompression(rom_path, compression_format) ==
    /\ call' = [op |-> "change_compression", rom |-> rom_path, path |-> <<>>,
                level |-> 0, opt |-> Some(compression_format)]
    /\ built' = change_compression(rom_path, compression_format)
    /\ UNCHANGED runvars

NextCmd ==
    \/ \E r \in CmdPaths, m \in CmdPaths, n \in {None} \cup {Some(k) : k \in LevelNumbers} :
          ImportLevel(r, m, n)
    \/ \E r \in CmdPaths, m \in CmdPaths, n \in LevelNumbers,
          l \in {None} \cup {Some(xy) : xy \in Locations} :
          ImportMap16(r, m, n, l)
    \/ \E r \in CmdPaths, m \in CmdPaths,
          f \in {None} \cup {Some(fs) : fs \in FlagSeqs(LevelExportFlags)} :
          ExportMultLevels(r, m, f)
    \/ \E r \in CmdPaths, m \in CmdPaths,
          f \in {None} \cup {Some(fs) : fs \in FlagSeqs(LevelImportFlags)} :
          ImportMultLevels(r, m, f)
    \/ \E r \in CmdPaths, z \in RomSizes : ExpandRom(r, z)
    \/ \E r \in CmdPaths, f \in CompressionFormats : ChangeCompression(r, f)

SpecCmd == Init /\ [][NextCmd]_vars

----------------------------------------------------------------------------
(* Properties *)

\* the command line of the call of caller t, composed independently
CommandLine(t) == ToStringLossy(lunar_magic_path[t]) \o Sp \o command_string[t]

\* C1: for every operation, a call on a Wrapper whose tool path does not exist
\* ends at once with LunarMagicMissing; the invocation spawns no process and
\* creates no temporary directory.
C1_ToolMissing ==
    \A t \in Threads :
        (pc[t] # "idle" /\ lunar_magic_path[t] = LmGone) =>
            /\ pc[t] = "done"
            /\ result[t].kind = "LunarMagicMissing"
            /\ spawned[t] = 0
            /\ made[t] = 0
            /\ log_dir[t] = NoDir
            /\ \A d \in DirNames : tmp[d] # t

C1_Witness ==
    \E t \in Threads :
        /\ pc[t] = "done"
        /\ lunar_magic_path[t] = LmGone
        /\ command_string[t] = import_map16(Rom, Res, 105, Some(<<2, 64>>))
        /\ result[t].kind = "LunarMagicMissing"

\* C2: once an invocation has returned, with any outcome, no temporary
\* directory and no log file that it created is left on the disk.
C2_Cleanup ==
    \A t \in Threads :
        pc[t] = "done" =>
            /\ \A d \in DirNames : tmp[d] # t
            /\ \A p \in DOMAIN files : files[p].by # t

C2_Witness ==
    \E t \in Threads :
        /\ pc[t] = "done"
        /\ made[t] = 1
        /\ redirected[t]
        /\ result[t].kind = "Operation"
        /\ Len(written[t]) = 2

\* C3: when the process was launched and the tool wrote its lines and exited
\* with status 0, the invocation ends with success carrying exactly the lines
\* written, in order.
C3_ExitZeroReturnsLines ==
    \A t \in Threads :
        (pc[t] \in {"done", "panicked"} /\ spawned[t] = 1 /\ proc[t] = "exited"
            /\ status[t] = Some(0)) =>
            result[t] = Ok(written[t])

\* C4: when the process was launched and its log was read, and the process
\* ended with a non-zero exit code or none, the invocation returns Operation
\* with that code and every line the tool wrote, in order.
C4_FailureKeepsOutput ==
    \A t \in Threads :
        (pc[t] = "done" /\ spawned[t] = 1 /\ redirected[t] /\ ~(status[t] = Some(0))) =>
            /\ result[t].kind = "Operation"
            /\ result[t].code = status[t]
            /\ result[t].output = written[t]

C4_Witness ==
    \E t \in Threads :
        /\ pc[t] = "done"
        /\ result[t].kind = "Operation"
        /\ result[t].code = None
        /\ written[t] = <<<<"a">>, <<>>>>

\* C5: when the tool path exists but the tool at it cannot be started, the
\* invocation (once cmd ran with its output redirected) returns
\* FailedToExecute, not Operation or NoTempFile.
C5_NotLaunchableIsFailedToExecute ==
    \A t \in Threads :
        (pc[t] = "done" /\ lunar_magic_path[t] = LmNotExe /\ made[t] = 1
            /\ (spawned[t] = 1 => redirected[t])) =>
            result[t].kind = "FailedToExecute"

\* C6: an invocation returns NoTempFile exactly when its process was launched
\* and the log could not be opened afterwards, whatever the exit status.
C6_NoTempFile ==
    \A t \in Threads :
        pc[t] = "done" =>
            ((spawned[t] = 1 /\ ~redirected[t]) <=> result[t].kind = "NoTempFile")

C6_Witness ==
    \E t \in Threads :
        /\ pc[t] = "done"
        /\ result[t].kind = "NoTempFile"
        /\ status[t] = Some(1)
        /\ proc[t] = "exited"

\* C7: under every interleaving of the callers, the lines an invocation
\* collected and returns are exactly the lines its own process wrote.
C7_OwnOutput ==
    \A t \in Threads :
        /\ pc[t] = "LogRead" => output[t] = written[t]
        /\ (pc[t] = "done" /\ result[t].kind \in {"Ok", "Operation"}) =>
               result[t].output = written[t]

C7_Witness ==
    /\ pc[1] = "LogRead"
    /\ pc[2] = "LogRead"
    /\ Len(output[1]) = 2
    /\ Len(output[2]) = 2
    /\ output[1] # output[2]

\* C8 as stated: every invocation that returned had exactly one temporary
\* directory and one log file.
C8_ExactlyOnePerInvocation ==
    \A t \in Threads : pc[t] = "done" => (made[t] = 1 /\ redirected[t])

\* C8, amended: an invocation creates at most one temporary directory and at
\* most one log file, holds exactly one directory of its own from tempdir()
\* until it leaves run_and_log and none otherwise, and at no moment do two
\* invocations use the same directory or log file.
C8_OwnLogFile ==
    \A t \in Threads :
        /\ made[t] <= 1
        /\ (log_dir[t] # NoDir) <=>
               (pc[t] \in {"TempDirCreated", "ProcessLaunched", "LogOpened", "LogRead"})
        /\ log_dir[t] # NoDir => (made[t] = 1 /\ tmp[log_dir[t]] = t)
        /\ Cardinality({d \in DirNames : tmp[d] = t}) = (IF log_dir[t] # NoDir THEN 1 ELSE 0)
        /\ Cardinality({p \in DOMAIN files : files[p].by = t}) <= 1
        /\ \A p \in DOMAIN files :
               files[p].by = t => (p[1] = log_dir[t] /\ redirected[t])
        /\ \A u \in Threads \ {t} : log_dir[t] # NoDir => log_dir[u] # log_dir[t]

C8_Witness ==
    /\ proc[1] = "running"
    /\ proc[2] = "running"
    /\ Cardinality(DOMAIN files) = 2
    /\ log_dir[1] # log_dir[2]

\* C9: every error carries the command line of the call: the tool path, a
\* space, and the command string of the operation, whatever the kind.
C9_ErrorCommand ==
    \A t \in Threads :
        (pc[t] = "done" /\ result[t].kind \in ErrKinds) =>
            result[t].command = CommandLine(t)

C9_Witness ==
    \E t \in Threads :
        /\ pc[t] = "done"
        /\ result[t].kind = "NoTempFile"
        /\ result[t].command =
               <<"C:/lm/lunar_magic.exe", " ", "-ExpandROM", " ", "hack.smc", " ", "6MB_SA1">>

\* C10: no invocation ends in a panic; each returns a result.
C10_NoPanic == \A t \in Threads : pc[t] # "panicked"

----------------------------------------------------------------------------
(* Properties of the command builders *)

\* the tokens of a command string: its maximal runs of pieces that are no space
Tokens(str) ==
    Cardinality({i \in DOMAIN str : str[i] # " " /\ (i = 1 \/ str[i - 1] = " ")})

LastPiece(str) == str[Len(str)]

Reverse(v) == [i \in DOMAIN v |-> v[Len(v) + 1 - i]]

OptionalOps == {"import_level", "import_map16", "export_mult_levels", "import_mult_levels"}

MultOps == {"export_mult_levels", "import_mult_levels"}

\* the optional arguments a caller can supply to operation op
Supplied(op) ==
    CASE op = "import_level" -> {Some(k) : k \in LevelNumbers}
      [] op = "import_map16" -> {Some(xy) : xy \in Locations}
      [] op = "export_mult_levels" -> {Some(fs) : fs \in FlagSeqs(LevelExportFlags)}
      [] op = "import_mult_levels" -> {Some(fs) : fs \in FlagSeqs(LevelImportFlags)}

\* the value a flags argument stands for: 1 if the flag of bit 0 is among
\* the flags combined, 0 otherwise
FlagsValue(fs) == IF \E i \in DOMAIN fs : fs[i] # "None" THEN 1 ELSE 0

\* the one token a supplied optional argument is documented to become
OptToken(c) ==
    CASE c.op = "import_level" -> <<ToString(c.opt[1])>>
      [] c.op = "import_map16" -> <<ToString(c.opt[1][1]), ",", ToString(c.opt[1][2])>>
      [] c.op \in MultOps -> <<ToString(FlagsValue(c.opt[1]))>>

\* C11: for import_level, import_map16, export_mult_levels and
\* import_mult_levels and all other arguments, the command built with the
\* optional argument omitted is the keyword and the other arguments only (no
\* placeholder) and has strictly fewer tokens than with it supplied; a supplied
\* argument adds exactly one token, a location the single token "x,y".
C11_OptionalOmitted ==
    call.op \in OptionalOps =>
        LET omitted == BuildCall([call EXCEPT !.opt = None])
            base == 1 + Tokens(call.rom) + Tokens(call.path)
                      + (IF call.op = "import_map16" THEN 1 ELSE 0)
        IN /\ Tokens(omitted) = base
           /\ IF call.opt = None
              THEN /\ built = omitted
                   /\ \A x \in Supplied(call.op) :
                          Tokens(omitted) < Tokens(BuildCall([call EXCEPT !.opt = x]))
              ELSE /\ Tokens(omitted) < Tokens(built)
                   /\ Tokens(OptToken(call)) = 1
                   /\ built = omitted \o Sp \o OptToken(call)

C11_Witness ==
    /\ call.op = "import_map16"
    /\ call.opt = Some(<<2, 64>>)
    /\ call.path = Mwl
    /\ SubSeq(built, Len(built) - 3, Len(built)) = <<" ", "2", ",", "64">>

\* C12: the flags of a set combine by bitwise OR of their values: the
\* combination is commutative and associative, a flag combined with itself is
\* the flag, None (0) changes nothing, and the token passed to the tool is the
\* OR of the values of the flags combined.
C12_FlagOr ==
    (call.op \in MultOps /\ call.opt # None) =>
        LET fs == call.opt[1]
            v == [i \in DOMAIN fs |->
                     IF call.op = "import_mult_levels"
                     THEN LevelImportFlag_bits(fs[i]) ELSE LevelExportFlag_bits(fs[i])]
        IN /\ LastPiece(built) = ToString(FlagsValue(fs))
           /\ OrAll(v) = FlagsValue(fs)
           /\ OrAll(Reverse(v)) = OrAll(v)
           /\ \A i \in DOMAIN v :
                  /\ BitOr(v[i], v[i]) = v[i]
                  /\ BitOr(v[i], 0) = v[i]
                  /\ BitOr(0, v[i]) = v[i]
           /\ \A i \in DOMAIN v, j \in DOMAIN v, k \in DOMAIN v :
                  /\ BitOr(v[i], v[j]) = BitOr(v[j], v[i])
                  /\ BitOr(BitOr(v[i], v[j]), v[k]) = BitOr(v[i], BitOr(v[j], v[k]))

C12_Witness ==
    /\ call.op = "import_mult_levels"
    /\ call.opt = Some(<<"ClearSecondaryExits", "ClearSecondaryExits">>)
    /\ LastPiece(built) = "1"

\* the documented token of each variant
DocumentedToken(v) ==
    CASE v = "_2mb" -> "2MB"
      [] v = "_3mb" -> "3MB"
      [] v = "_4mb" -> "4MB"
      [] v = "_6mbSa1" -> "6MB_SA1"
      [] v = "_8mbSa1" -> "8MB_SA1"
      [] v = "LcLz2Orig" -> "LC_LZ2_Orig"
      [] v = "LcLz2Speed" -> "LC_LZ2_Speed"
      [] v = "LcLz3" -> "LC_LZ3"

\* C13: each RomSize and each CompressionFormat variant renders to its one
\* documented token, distinct variants to distinct tokens, and expand_rom and
\* change_compression put that token last in the command, after the ROM path.
C13_EnumTokens ==
    /\ call.op = "expand_rom" =>
          /\ RomSize_to_string(call.opt[1]) = <<DocumentedToken(call.opt[1])>>
          /\ \A w \in RomSizes \ {call.opt[1]} :
                 RomSize_to_string(w) # RomSize_to_string(call.opt[1])
          /\ built = <<"-ExpandROM", " ">> \o call.rom
                        \o <<" ", DocumentedToken(call.opt[1])>>
    /\ call.op = "change_compression" =>
          /\ CompressionFormat_to_string(call.opt[1]) = <<DocumentedToken(call.opt[1])>>
          /\ \A w \in CompressionFormats \ {call.opt[1]} :
                 CompressionFormat_to_string(w) # CompressionFormat_to_string(call.opt[1])
          /\ built = <<"-ChangeCompression", " ">> \o call.rom
                        \o <<" ", DocumentedToken(call.opt[1])>>

C13_Witness ==
    /\ call.op = "expand_rom"
    /\ call.opt = Some("_8mbSa1")
    /\ LastPiece(built) = "8MB_SA1"

\* C16: for export_mult_levels and import_mult_levels, flags supplied with
\* value zero build a command that ends with the token "0"; flags omitted
\* build the command without any flags token; the two commands differ.
C16_ZeroFlagsNotOmitted ==
    call.op \in MultOps =>
        LET keyword == IF call.op = "export_mult_levels"
                       THEN "-ExportMultLevels" ELSE "-ImportMultLevels"
            plain == <<keyword, " ">> \o call.rom \o Sp \o call.path
        IN /\ call.opt = None => built = plain
           /\ (call.opt # None /\ FlagsValue(call.opt[1]) = 0) =>
                  /\ built = plain \o <<" ", "0">>
                  /\ built # BuildCall([call EXCEPT !.opt = None])

C16_Witness ==
    /\ call.op = "export_mult_levels"
    /\ call.opt = Some(<<"None">>)
    /\ LastPiece(built) = "0"
    /\ Tokens(built) = Tokens(BuildCall([call EXCEPT !.opt = None])) + 1

----------------------------------------------------------------------------
(* Properties of the order of the steps *)

\* an invocation is over: it returned (done) or it panicked
Terminal == {"done", "panicked"}

\* the changes of position of an invocation, the panic of ReadLog among them
Edges ==
    {<<"idle", "ToolChecked">>, <<"idle", "done">>,
     <<"ToolChecked", "TempDirCreated">>, <<"ToolChecked", "done">>,
     <<"TempDirCreated", "ProcessLaunched">>, <<"TempDirCreated", "done">>,
     <<"ProcessLaunched", "LogOpened">>, <<"ProcessLaunched", "done">>,
     <<"LogOpened", "LogRead">>, <<"LogOpened", "panicked">>,
     <<"LogRead", "done">>,
     <<"done", "idle">>, <<"panicked", "idle">>}

\* the changes of position of an invocation that ends with a result
ResultEdges == Edges \ {<<"LogOpened", "panicked">>, <<"panicked", "idle">>}

\* the kinds of result a step that returns gives, by the position it leaves
KindsFrom(from) ==
    CASE from = "idle" -> {"LunarMagicMissing"}
      [] from = "ToolChecked" -> {"NoTempDir"}
      [] from = "TempDirCreated" -> {"FailedToExecute"}
      [] from = "ProcessLaunched" -> {"NoTempFile"}
      [] from = "LogRead" -> {"Ok", "Operation"}
      [] OTHER -> {}

C14_State(t) ==
    /\ spawned[t] <= 1
    /\ spawned[t] = 1 =>
          /\ made[t] = 1
          /\ lunar_magic_path[t] # LmGone
          /\ pc[t] \in {"ProcessLaunched", "LogOpened", "LogRead", "done", "panicked"}
    /\ made[t] = 1 => pc[t] \notin {"idle", "ToolChecked"}
    /\ (pc[t] = "done" /\ result[t].kind = "NoTempDir") => (spawned[t] = 0 /\ made[t] = 0)
    /\ pc[t] \in {"idle", "ToolChecked", "TempDirCreated"} => spawned[t] = 0

C14_Step(t, E) ==
    /\ pc'[t] # pc[t] =>
          /\ <<pc[t], pc'[t]>> \in E
          /\ pc'[t] = "done" => result'[t].kind \in KindsFrom(pc[t])
    /\ (spawned'[t] # spawned[t] /\ pc'[t] # "idle") =>
          (pc[t] = "TempDirCreated" /\ pc'[t] = "ProcessLaunched"
              /\ spawned'[t] = spawned[t] + 1)
    /\ (made'[t] # made[t] /\ pc'[t] # "idle") =>
          (pc[t] = "ToolChecked" /\ pc'[t] = "TempDirCreated" /\ made'[t] = made[t] + 1)
    /\ (pc[t] \in Terminal /\ pc'[t] = pc[t]) =>
          /\ result'[t] = result[t]
          /\ spawned'[t] = spawned[t]
          /\ made'[t] = made[t]
          /\ proc'[t] = proc[t]
          /\ status'[t] = status[t]
          /\ log_dir'[t] = NoDir

\* C14: an invocation changes position only along idle (not started),
\* ToolChecked, TempDirCreated, ProcessLaunched, LogOpened, LogRead and then
\* done with Ok or an error, each failed step going straight to done with the
\* error of that step; the process is spawned at most once, only after the
\* tool check passed and the temporary directory was created, never when
\* tempdir() failed; an invocation that is over takes no further step.
C14_Order ==
    /\ [](\A t \in Threads : C14_State(t))
    /\ [][\A t \in Threads : C14_Step(t, ResultEdges)]_vars

\* the same order with the panic of ReadLog counted as an end
OrderOrPanic ==
    /\ [](\A t \in Threads : C14_State(t))
    /\ [][\A t \in Threads : C14_Step(t, Edges)]_vars

C15_State(t) ==
    /\ pc[t] \in {"LogOpened", "LogRead"} => proc[t] = "exited"
    /\ (pc[t] = "done" /\ result[t].kind \in {"Ok", "Operation", "NoTempFile"}) =>
          proc[t] = "exited"

C15_Step(t, Ends) ==
    \* the directory of t goes only as t ends, its process over, and if the
    \* log was opened only after it was read and the result holds its lines
    /\ (log_dir[t] # NoDir /\ tmp[log_dir[t]] = t /\ tmp'[log_dir[t]] = 0) =>
          /\ pc'[t] \in Ends
          /\ proc[t] # "running"
          /\ pc[t] = "LogOpened" => pc'[t] = "panicked"
          /\ pc'[t] = "done" =>
                /\ result'[t] # NoResult
                /\ pc[t] \in {"TempDirCreated", "ProcessLaunched", "LogRead"}
                /\ pc[t] = "ProcessLaunched" => result'[t].kind = "NoTempFile"
                /\ pc[t] = "LogRead" => result'[t].output = output[t]
    \* a directory goes by the invocation that holds it, and no other way
    /\ \A d \in DirNames :
          (tmp[d] = t /\ tmp'[d] # t) => (log_dir[t] = d /\ tmp'[d] = 0)
    \* the log of t changes only by a line its running tool writes
    /\ \A p \in DOMAIN files :
          (files[p].by = t /\ p \in DOMAIN files' /\ files'[p] # files[p]) =>
              /\ proc[t] = "running"
              /\ pc[t] = "ProcessLaunched" /\ pc'[t] = "ProcessLaunched"
              /\ Len(written'[t]) = Len(written[t]) + 1
              /\ files'[p].by = t
    \* and comes to be, empty, only as cmd is launched
    /\ \A p \in DOMAIN files' :
          (files'[p].by = t /\ p \notin DOMAIN files) =>
              (spawned'[t] = spawned[t] + 1 /\ files'[p].data = <<>>)

\* C15: within an invocation the log is opened and read only after the
\* process has ended; the temporary directory is removed only as the
\* invocation returns, after the log was read and with the result made; the
\* log is created by cmd and changed only by the running tool, never by the
\* wrapper.
C15_LogLifecycle ==
    /\ [](\A t \in Threads : C15_State(t))
    /\ [][\A t \in Threads : C15_Step(t, {"done"})]_vars

\* the same with the removal at the panic of ReadLog let through
LogLifecycleOrPanic ==
    /\ [](\A t \in Threads : C15_State(t))
    /\ [][\A t \in Threads : C15_Step(t, Terminal)]_vars

\* the wrapper waits for its process: it is at ProcessLaunched while the
\* process runs, and goes on to an end (the panic among them) once the
\* process has ended and from every step before the launch
BlockingOrPanic ==
    \A t \in Threads :
        /\ [](proc[t] = "running" => pc[t] = "ProcessLaunched")
        /\ (proc[t] = "exited" /\ pc[t] = "ProcessLaunched") ~> (pc[t] \in Terminal)
        /\ (pc[t] \notin {"idle"} \cup Terminal) ~>
               (pc[t] \in Terminal \/ proc[t] = "running")

\* C17: the invocation waits for the process: while the process runs the
\* invocation stays at ProcessLaunched (no timeout, no cancellation), so it
\* does not return if the process never ends; once the process has ended the
\* invocation goes on to return Ok or an error.
C17_Blocking ==
    \A t \in Threads :
        /\ [](proc[t] = "running" => pc[t] = "ProcessLaunched")
        /\ (proc[t] = "exited" /\ pc[t] = "ProcessLaunched") ~> (pc[t] = "done")

====
